---- MODULE Spec2Model ----
(***************************************************************************)
(* Order lifecycle and inventory consistency of techOnline:                *)
(*   StockManager          src/modules/utils/stock_manager.py              *)
(*   OrderWorkflowManager  src/modules/utils/order_workflow.py             *)
(*   create_order_from_cart, DELETE /orders/<id>                           *)
(*                         src/api/v1/views/orders.py                      *)
(*   Product.update_stock  src/modules/Products/product.py                 *)
(*   Cart                  src/modules/Cart/cart.py                        *)
(*                                                                         *)
(* The persistence layer is the collaborator of the code: a commit either  *)
(* succeeds or raises, and a rollback restores the last committed value.   *)
(* Every commit the code wraps in try/except is an input of the operation  *)
(* (commit_ok, or a named fault).  The managers are given a SQLAlchemy     *)
(* session, as their constructors document.                                *)
(*                                                                         *)
(* Every request runs to completion before the next one starts in          *)
(*   Spec       the order flow: cart -> order conversion, status           *)
(*              transitions and order deletion, from any stock and cart;   *)
(*   StockSpec  the stock operations of /stock/reserve, /stock/release     *)
(*              and /stock/adjust, from any stock.                         *)
(* RaceSpec interleaves two reserve_stock requests on the session that     *)
(* DBStorage.reload creates once and every request shares.                 *)
(***************************************************************************)
EXTENDS Integers, Sequences, FiniteSets, TLC

\* ---------------------------------------------------------------- bounds
MaxStock == 2
MaxQty == 1
MaxPath == 12

\* ------------------------------------------------------------- universe
Products == {"A", "B"}
UnknownProduct == "X"
ProductIds == Products \cup {UnknownProduct}
CartId == "cart1"
MissingCartId == "nocart"
CartOwner == "c1"
Customers == {"c1", "c2"}
NoCustomer == "none"
OrderId == "o1"
OrderIds == {OrderId}
Quantities == 1..MaxQty

VARIABLES
    stock,          \* Product.stock_quantity, per product
    is_available,   \* Product.is_available, the strings 'True' / 'False'
    cart_items,     \* Cart.cart_items of the cart CartId: sequence of lines
    orders,         \* order id -> [exists, order_status, order_items]
    used_ids,       \* order ids handed out so far (a deleted id is not reused)
    last,           \* the last request: its inputs, its result, the state before it
    rpc, rqty, rtmp, rres, db_stock, stock0   \* RaceSpec: the two requests

vars == <<stock, is_available, cart_items, orders, used_ids, last,
          rpc, rqty, rtmp, rres, db_stock, stock0>>

raceVars == <<rpc, rqty, rtmp, rres, db_stock, stock0>>
shopVars == <<is_available, cart_items, orders, used_ids, last>>

\* Product.price of the catalogue, in cents
product_price == [p \in ProductIds |-> IF p = "A" THEN 1000 ELSE 2500]

\* a cart item; its unit_price is the product's price when it was added
Line(p, q) == [product_id |-> p, quantity |-> q, unit_price |-> product_price[p]]
NoOrder == [exists |-> FALSE, order_status |-> "none", order_items |-> <<>>]

\* =======================================================================
\* StockManager
\* =======================================================================

\* check_stock_availability: never raises; an unknown product is unavailable
check_stock_availability_NoCheck(st, product_id, requested_quantity) ==
    IF product_id \notin Products
    THEN [available |-> FALSE, current_stock |-> 0]
    ELSE [available |-> TRUE, current_stock |-> st[product_id]]

check_stock_availability(st, product_id, requested_quantity) ==
    IF product_id \notin Products
    THEN [available |-> FALSE, current_stock |-> 0]
    ELSE [available |-> st[product_id] >= requested_quantity,
          current_stock |-> st[product_id]]

\* reserve_stock: check, decrement, commit; a failed commit is rolled back
reserve_stock(st, product_id, quantity, commit_ok) ==
    LET stock_check == check_stock_availability(st, product_id, quantity) IN
    IF ~stock_check.available
    THEN [success |-> FALSE, stock |-> st,
          current_stock |-> stock_check.current_stock]
    ELSE IF commit_ok
    THEN [success |-> TRUE,
          stock |-> [st EXCEPT ![product_id] = @ - quantity],
          current_stock |-> st[product_id] - quantity]
    ELSE [success |-> FALSE, stock |-> st, current_stock |-> st[product_id]]

\* release_stock: increment, commit; a failed commit is rolled back
release_stock_NoIncrement(st, product_id, quantity, commit_ok) ==
    IF product_id \notin Products
    THEN [success |-> FALSE, stock |-> st, current_stock |-> 0]
    ELSE [success |-> commit_ok, stock |-> st, current_stock |-> st[product_id]]

release_stock(st, product_id, quantity, commit_ok) ==
    IF product_id \notin Products
    THEN [success |-> FALSE, stock |-> st, current_stock |-> 0]
    ELSE IF commit_ok
    THEN [success |-> TRUE,
          stock |-> [st EXCEPT ![product_id] = @ + quantity],
          current_stock |-> st[product_id] + quantity]
    ELSE [success |-> FALSE, stock |-> st, current_stock |-> st[product_id]]

\* update_stock_quantity: absolute set, rejects a negative target
update_stock_quantity_Delta(st, product_id, new_quantity, commit_ok) ==
    IF new_quantity < 0 \/ product_id \notin Products \/ ~commit_ok
    THEN [success |-> FALSE, stock |-> st, quantity_change |-> 0]
    ELSE [success |-> TRUE,
          stock |-> [st EXCEPT ![product_id] = @ + new_quantity],
          quantity_change |-> new_quantity]

update_stock_quantity(st, product_id, new_quantity, commit_ok) ==
    IF new_quantity < 0
    THEN [success |-> FALSE, stock |-> st, quantity_change |-> 0]
    ELSE IF product_id \notin Products
    THEN [success |-> FALSE, stock |-> st, quantity_change |-> 0]
    ELSE IF commit_ok
    THEN [success |-> TRUE,
          stock |-> [st EXCEPT ![product_id] = new_quantity],
          quantity_change |-> new_quantity - st[product_id]]
    ELSE [success |-> FALSE, stock |-> st, quantity_change |-> 0]

\* ------------------------------------------------ POST /stock/reserve
ReserveStock(product_id, quantity, commit_ok) ==
    \E r \in {reserve_stock(stock, product_id, quantity, commit_ok)} :
    /\ stock' = r.stock
    /\ last' = [op |-> "reserve_stock", product_id |-> product_id,
                quantity |-> quantity, success |-> r.success,
                commit_ok |-> commit_ok,
                pre_stock |-> stock, after_reserve |-> FALSE,
                reserve_pre_stock |-> stock, quantity_change |-> 0]
    /\ UNCHANGED <<is_available, cart_items, orders, used_ids>>
    /\ UNCHANGED raceVars

\* ------------------------------------------------ POST /stock/release
ReleaseStock(product_id, quantity, commit_ok) ==
    \E r \in {release_stock(stock, product_id, quantity, commit_ok)} :
    /\ product_id \in Products => stock[product_id] + quantity <= MaxStock
    /\ stock' = r.stock
    /\ last' = [op |-> "release_stock", product_id |-> product_id,
                quantity |-> quantity, success |-> r.success,
                commit_ok |-> commit_ok,
                pre_stock |-> stock,
                \* the request just before was the matching successful reservation
                after_reserve |-> /\ last.op = "reserve_stock"
                                  /\ last.success
                                  /\ last.product_id = product_id
                                  /\ last.quantity = quantity,
                reserve_pre_stock |-> IF last.op = "reserve_stock"
                                      THEN last.pre_stock ELSE stock,
                quantity_change |-> 0]
    /\ UNCHANGED <<is_available, cart_items, orders, used_ids>>
    /\ UNCHANGED raceVars

\* ------------------------------------------------ PUT /stock/adjust
UpdateStockQuantity(product_id, new_quantity, commit_ok) ==
    \E r \in {update_stock_quantity(stock, product_id, new_quantity, commit_ok)} :
    /\ stock' = r.stock
    /\ last' = [op |-> "update_stock_quantity", product_id |-> product_id,
                quantity |-> new_quantity, success |-> r.success,
                commit_ok |-> commit_ok,
                pre_stock |-> stock, after_reserve |-> FALSE,
                reserve_pre_stock |-> stock,
                quantity_change |-> r.quantity_change]
    /\ UNCHANGED <<is_available, cart_items, orders, used_ids>>
    /\ UNCHANGED raceVars

\* =======================================================================
\* Cart
\* =======================================================================

\* Cart.add_product: a product already in the cart has its quantity raised
RECURSIVE add_product(_, _, _)
add_product(items, product_id, quantity) ==
    IF items = <<>>
    THEN <<Line(product_id, quantity)>>
    ELSE IF Head(items).product_id = product_id
    THEN <<Line(product_id, Head(items).quantity + quantity)>> \o Tail(items)
    ELSE <<Head(items)>> \o add_product(Tail(items), product_id, quantity)

\* Cart.clear_cart: every item is deleted
clear_cart(items) == <<>>

\* =======================================================================
\* create_order_from_cart
\* =======================================================================

NoFault == [kind |-> "none", line |-> 0]
Fault(kind, k) == [kind |-> kind, line |-> k]

\* the commits of one conversion that can raise: order.save(), the k-th
\* order_item.save(), the commit inside the k-th reserve_stock, the
\* order.save() after calculate_total_amount, the final cart.save()
ConversionFaults(n) ==
    {NoFault, Fault("order_save", 0), Fault("total_save", 0), Fault("cart_save", 0)}
        \cup {Fault("item_save", k) : k \in 1..n}
        \cup {Fault("reserve_commit", k) : k \in 1..n}

\* check_multiple_products_stock: one availability check per line
check_multiple_products_stock_AllAvailable(st, product_quantities) ==
    [all_available |-> TRUE, unavailable_items |-> {}]

check_multiple_products_stock(st, product_quantities) ==
    LET unavailable ==
            {i \in 1..Len(product_quantities) :
                ~check_stock_availability(st, product_quantities[i].product_id,
                                          product_quantities[i].quantity).available}
    IN  [all_available |-> unavailable = {}, unavailable_items |-> unavailable]

\* validators.py lines 12-18: there is no models package, so the import
\* fallback leaves ModelOrder and ModelProduct set to None
ModelOrder == "None"

\* the limits of BusinessRuleValidator; money in cents
MAX_DAILY_ORDERS == 10
MAX_MONTHLY_ORDER_VALUE == 5000000

\* what the two queries of validate_customer_order_limits would count for a
\* customer: today's non-cancelled orders, and this month's total over the
\* confirmed / processing / shipped / delivered orders
History(daily_orders, monthly_total) ==
    [daily_orders |-> daily_orders, monthly_total |-> monthly_total]

NoHistory == History(0, 0)

\* lines 204-207: sum of quantity * product.price over the cart
RECURSIVE preliminary_total(_, _)
preliminary_total(items, k) ==
    IF k > Len(items) THEN 0
    ELSE items[k].quantity * product_price[items[k].product_id]
             + preliminary_total(items, k + 1)

\* validate_customer_order_limits: the first query names
\* ModelOrder.customer_id; with ModelOrder None it raises inside the try
\* block, the except branch adds a warning, and no error was recorded
validate_customer_order_limits(customer_id, history, order_total) ==
    IF ModelOrder = "None"
    THEN [valid |-> TRUE, errors |-> {}]
    ELSE LET errors ==
                 (IF history.daily_orders >= MAX_DAILY_ORDERS
                  THEN {"daily"} ELSE {})
                 \cup (IF history.monthly_total + order_total
                             > MAX_MONTHLY_ORDER_VALUE
                        THEN {"monthly"} ELSE {})
         IN  [valid |-> errors = {}, errors |-> errors]

\* validate_inventory_constraints queries ModelProduct, which is None as
\* well: the query raises inside its try block and it reports valid
validate_inventory_constraints(order_items_data) == [valid |-> TRUE]

\* validate_order_items: at least one item, every quantity positive
validate_order_items(order_items_data) ==
    [valid |-> /\ order_items_data # <<>>
               /\ \A i \in 1..Len(order_items_data) :
                      order_items_data[i].quantity > 0]

\* lines 178-242: the checks that precede the first write
conversion_validation(st, cart_id, customer_id, history, items) ==
    IF cart_id # CartId THEN "cart_not_found"
    ELSE IF customer_id # NoCustomer /\ CartOwner # customer_id
    THEN "wrong_customer"
    ELSE IF items = <<>> THEN "empty_cart"
    ELSE IF /\ customer_id # NoCustomer
            /\ ~validate_customer_order_limits(
                    customer_id, history, preliminary_total(items, 1)).valid
    THEN "limits"
    ELSE IF ~validate_order_items(items).valid THEN "order_items"
    ELSE IF ~validate_inventory_constraints(items).valid THEN "inventory"
    ELSE IF ~check_multiple_products_stock(st, items).all_available
    THEN "insufficient_stock"
    ELSE "ok"

\* lines 255-278: per line, save the order item, then reserve its stock
RECURSIVE reservation_loop(_, _, _, _)
reservation_loop(st, items, k, fault) ==
    IF k > Len(items)
    THEN [stock |-> st, reserved |-> Len(items), items_created |-> Len(items),
          raised |-> "none"]
    ELSE IF fault = Fault("item_save", k)
    THEN [stock |-> st, reserved |-> k - 1, items_created |-> k - 1,
          raised |-> "item_save_failed"]
    ELSE LET r == reserve_stock(st, items[k].product_id, items[k].quantity,
                                fault # Fault("reserve_commit", k))
         IN  IF ~r.success
             THEN [stock |-> r.stock, reserved |-> k - 1, items_created |-> k,
                   raised |-> "reservation_failed"]
             ELSE reservation_loop(r.stock, items, k + 1, fault)

\* lines 287-294: release every line reserved so far; the result of
\* release_stock is not looked at
RECURSIVE release_reserved(_, _, _, _, _)
release_reserved(st, items, i, n, release_faults) ==
    IF i > n
    THEN st
    ELSE release_reserved(
             release_stock(st, items[i].product_id, items[i].quantity,
                           i \notin release_faults).stock,
             items, i + 1, n, release_faults)

\* lines 257-262: the order item made from a cart item
OrderItem_NoPrice(cart_item) ==
    [product_id |-> cart_item.product_id, quantity |-> cart_item.quantity,
     unit_price |-> 0]

OrderItem(cart_item) ==
    [product_id |-> cart_item.product_id, quantity |-> cart_item.quantity,
     unit_price |-> cart_item.unit_price]

\* the order items of the first n cart lines
order_items_created(items, n) == [k \in 1..n |-> OrderItem(items[k])]

\* lines 244-299 after a passed validation
conversion_body_ClearFirst(st, items, fault, release_faults) ==
    IF fault.kind = "order_save"
    THEN [outcome |-> "order_save_failed", order_created |-> FALSE, stock |-> st,
          order_items |-> <<>>, reserved |-> 0, cart |-> items]
    ELSE
    LET loop == reservation_loop(st, items, 1, fault) IN
    IF loop.raised # "none" \/ fault.kind = "total_save"
    THEN [outcome |-> IF loop.raised # "none" THEN loop.raised
                      ELSE "total_save_failed",
          order_created |-> TRUE,
          stock |-> release_reserved(loop.stock, items, 1, loop.reserved,
                                     release_faults),
          order_items |-> order_items_created(items, loop.items_created),
          reserved |-> loop.reserved, cart |-> clear_cart(items)]
    ELSE IF fault.kind = "cart_save"
    THEN [outcome |-> "cart_save_failed", order_created |-> TRUE,
          stock |-> loop.stock,
          order_items |-> order_items_created(items, Len(items)),
          reserved |-> loop.reserved, cart |-> clear_cart(items)]
    ELSE [outcome |-> "created", order_created |-> TRUE, stock |-> loop.stock,
          order_items |-> order_items_created(items, Len(items)),
          reserved |-> loop.reserved,
          cart |-> clear_cart(items)]

conversion_body(st, items, fault, release_faults) ==
    IF fault.kind = "order_save"
    THEN [outcome |-> "order_save_failed", order_created |-> FALSE, stock |-> st,
          order_items |-> <<>>, reserved |-> 0, cart |-> items]
    ELSE
    LET loop == reservation_loop(st, items, 1, fault) IN
    IF loop.raised # "none" \/ fault.kind = "total_save"
    THEN [outcome |-> IF loop.raised # "none" THEN loop.raised
                      ELSE "total_save_failed",
          order_created |-> TRUE,
          stock |-> release_reserved(loop.stock, items, 1, loop.reserved,
                                     release_faults),
          order_items |-> order_items_created(items, loop.items_created),
          reserved |-> loop.reserved, cart |-> items]
    ELSE IF fault.kind = "cart_save"
    THEN \* clear_cart ran, its deletes were never committed
         [outcome |-> "cart_save_failed", order_created |-> TRUE,
          stock |-> loop.stock,
          order_items |-> order_items_created(items, Len(items)),
          reserved |-> loop.reserved, cart |-> items]
    ELSE [outcome |-> "created", order_created |-> TRUE, stock |-> loop.stock,
          order_items |-> order_items_created(items, Len(items)),
          reserved |-> loop.reserved,
          cart |-> clear_cart(items)]

\* create_order_from_cart(cart_id, customer_id)
create_order_from_cart(st, cart_id, customer_id, history, items, fault, rf) ==
    LET verdict == conversion_validation(st, cart_id, customer_id, history, items) IN
    IF verdict # "ok"
    THEN [outcome |-> verdict, order_created |-> FALSE, stock |-> st,
          order_items |-> <<>>, reserved |-> 0, cart |-> items]
    ELSE conversion_body(st, items, fault, rf)

\* ------------------------------------------------------- POST /orders
CreateOrderFromCart(cart_id, customer_id, history, fault, release_faults) ==
    \E r \in {create_order_from_cart(stock, cart_id, customer_id, history,
                                      cart_items, fault, release_faults)} :
        /\ r.order_created => OrderId \notin used_ids
        /\ stock' = r.stock
        /\ cart_items' = r.cart
        /\ orders' = IF r.order_created
                     THEN [orders EXCEPT ![OrderId] =
                              [exists |-> TRUE, order_status |-> "pending",
                               order_items |-> r.order_items]]
                     ELSE orders
        /\ used_ids' = IF r.order_created THEN used_ids \cup {OrderId} ELSE used_ids
        /\ last' = [op |-> "create_order_from_cart",
                    cart_id |-> cart_id, customer_id |-> customer_id,
                    history |-> history,
                    fault |-> fault, release_faults |-> release_faults,
                    order_id |-> OrderId,
                    new_status |-> "none",
                    success |-> r.outcome = "created", outcome |-> r.outcome,
                    reserved |-> r.reserved,
                    pre_stock |-> stock, pre_cart |-> cart_items,
                    pre_orders |-> orders,
                    current_status |-> "none", valid_transitions |-> {},
                    post_success |-> FALSE, logged |-> {}]
        /\ UNCHANGED is_available
        /\ UNCHANGED raceVars

\* =======================================================================
\* OrderWorkflowManager
\* =======================================================================

OrderStatus == {"pending", "confirmed", "processing", "shipped", "delivered",
                "cancelled", "refunded", "failed"}
InvalidStatus == "bogus"

VALID_TRANSITIONS_SkipConfirm(current) ==
    CASE current = "pending"    -> {"confirmed", "cancelled", "failed", "shipped"}
      [] current = "confirmed"  -> {"processing", "cancelled"}
      [] current = "processing" -> {"shipped", "cancelled"}
      [] current = "shipped"    -> {"delivered", "cancelled"}
      [] current = "delivered"  -> {"refunded"}
      [] current = "cancelled"  -> {}
      [] current = "refunded"   -> {}
      [] current = "failed"     -> {"pending"}

VALID_TRANSITIONS_BackToPending(current) ==
    CASE current = "pending"    -> {"confirmed", "cancelled", "failed"}
      [] current = "confirmed"  -> {"processing", "cancelled", "pending"}
      [] current = "processing" -> {"shipped", "cancelled"}
      [] current = "shipped"    -> {"delivered", "cancelled"}
      [] current = "delivered"  -> {"refunded"}
      [] current = "cancelled"  -> {}
      [] current = "refunded"   -> {}
      [] current = "failed"     -> {"pending"}

VALID_TRANSITIONS(current) ==
    CASE current = "pending"    -> {"confirmed", "cancelled", "failed"}
      [] current = "confirmed"  -> {"processing", "cancelled"}
      [] current = "processing" -> {"shipped", "cancelled"}
      [] current = "shipped"    -> {"delivered", "cancelled"}
      [] current = "delivered"  -> {"refunded"}
      [] current = "cancelled"  -> {}
      [] current = "refunded"   -> {}
      [] current = "failed"     -> {"pending"}

\* can_transition_to: a string that is no OrderStatus raises ValueError -> False
can_transition_to(current_status, target_status) ==
    /\ current_status \in OrderStatus
    /\ target_status \in OrderStatus
    /\ target_status \in VALID_TRANSITIONS(current_status)

\* get_valid_transitions
get_valid_transitions(current_status) ==
    IF current_status \in OrderStatus
    THEN VALID_TRANSITIONS(current_status)
    ELSE {}

\* the commits of one transition that can raise: the commit inside the k-th
\* reserve_stock, the commit of the status; "post" is an exception inside
\* _handle_post_transition_actions (update_pricing)
TransitionFaults(n) ==
    {NoFault, Fault("status_commit", 0), Fault("post", 0)}
        \cup {Fault("reserve_commit", k) : k \in 1..n}

\* lines 298-312: reserve every order item, return at the first failure
RECURSIVE reserve_order_items(_, _, _, _)
reserve_order_items(st, items, k, fault) ==
    IF k > Len(items)
    THEN [success |-> TRUE, stock |-> st, reserved |-> Len(items)]
    ELSE LET r == reserve_stock(st, items[k].product_id, items[k].quantity,
                                fault # Fault("reserve_commit", k))
         IN  IF ~r.success
             THEN [success |-> FALSE, stock |-> r.stock, reserved |-> k - 1]
             ELSE reserve_order_items(r.stock, items, k + 1, fault)

\* lines 318-327: release every order item, whatever each release reports
release_order_items_FirstOnly(st, items, k, release_faults) ==
    IF k > Len(items)
    THEN st
    ELSE release_stock(st, items[k].product_id, items[k].quantity,
                       k \notin release_faults).stock

RECURSIVE release_order_items(_, _, _, _)
release_order_items(st, items, k, release_faults) ==
    IF k > Len(items)
    THEN st
    ELSE release_order_items(
             release_stock(st, items[k].product_id, items[k].quantity,
                           k \notin release_faults).stock,
             items, k + 1, release_faults)

\* _handle_pre_transition_actions
handle_pre_transition_actions(st, items, current_status, new_status, fault, rf) ==
    IF current_status = "pending" /\ new_status = "confirmed"
    THEN reserve_order_items(st, items, 1, fault)
    ELSE IF current_status \in {"confirmed", "processing"} /\ new_status = "cancelled"
    THEN [success |-> TRUE,
          stock |-> release_order_items(st, items, 1, rf),
          reserved |-> 0]
    ELSE [success |-> TRUE, stock |-> st, reserved |-> 0]

\* _handle_post_transition_actions: update_pricing on entering confirmed may
\* raise, which is caught and reported; the notification stub cannot fail
handle_post_transition_actions(new_status, fault) ==
    [success |-> ~(new_status = "confirmed" /\ fault.kind = "post")]

\* _log_status_change prints one entry; the set of entries one call prints
log_status_change(order_id, old_status, new_status) ==
    {[order_id |-> order_id, old_status |-> old_status, new_status |-> new_status]}

\* transition_order_status(order_id, new_status)
transition_order_status_PostRollsBack(st, ords, order_id, new_status, fault, release_faults) ==
    IF ~ords[order_id].exists
    THEN [success |-> FALSE, outcome |-> "not_found", stock |-> st,
          order_status |-> "none", current_status |-> "none",
          valid_transitions |-> {}, post_success |-> FALSE, logged |-> {},
          reserved |-> 0]
    ELSE
    LET order == ords[order_id]
        current_status == order.order_status
    IN
    IF ~can_transition_to(current_status, new_status)
    THEN [success |-> FALSE, outcome |-> "invalid_transition", stock |-> st,
          order_status |-> current_status, current_status |-> current_status,
          valid_transitions |-> get_valid_transitions(current_status),
          post_success |-> FALSE, logged |-> {}, reserved |-> 0]
    ELSE
    LET pre == handle_pre_transition_actions(st, order.order_items, current_status,
                                             new_status, fault, release_faults)
    IN
    IF ~pre.success
    THEN [success |-> FALSE, outcome |-> "pre_transition_failed",
          stock |-> pre.stock, order_status |-> current_status,
          current_status |-> "none", valid_transitions |-> {},
          post_success |-> FALSE, logged |-> {}, reserved |-> pre.reserved]
    ELSE IF fault.kind = "status_commit"
    THEN [success |-> FALSE, outcome |-> "commit_failed", stock |-> pre.stock,
          order_status |-> current_status, current_status |-> current_status,
          valid_transitions |-> {}, post_success |-> FALSE, logged |-> {},
          reserved |-> pre.reserved]
    ELSE IF ~handle_post_transition_actions(new_status, fault).success
    THEN [success |-> FALSE, outcome |-> "commit_failed", stock |-> pre.stock,
          order_status |-> current_status, current_status |-> current_status,
          valid_transitions |-> {}, post_success |-> FALSE, logged |-> {},
          reserved |-> pre.reserved]
    ELSE [success |-> TRUE, outcome |-> "changed", stock |-> pre.stock,
          order_status |-> new_status, current_status |-> new_status,
          valid_transitions |-> {},
          post_success |-> handle_post_transition_actions(new_status, fault).success,
          logged |-> log_status_change(order_id, current_status, new_status),
          reserved |-> pre.reserved]

transition_order_status(st, ords, order_id, new_status, fault, release_faults) ==
    IF ~ords[order_id].exists
    THEN [success |-> FALSE, outcome |-> "not_found", stock |-> st,
          order_status |-> "none", current_status |-> "none",
          valid_transitions |-> {}, post_success |-> FALSE, logged |-> {},
          reserved |-> 0]
    ELSE
    LET order == ords[order_id]
        current_status == order.order_status
    IN
    IF ~can_transition_to(current_status, new_status)
    THEN [success |-> FALSE, outcome |-> "invalid_transition", stock |-> st,
          order_status |-> current_status, current_status |-> current_status,
          valid_transitions |-> get_valid_transitions(current_status),
          post_success |-> FALSE, logged |-> {}, reserved |-> 0]
    ELSE
    LET pre == handle_pre_transition_actions(st, order.order_items, current_status,
                                             new_status, fault, release_faults)
    IN
    IF ~pre.success
    THEN [success |-> FALSE, outcome |-> "pre_transition_failed",
          stock |-> pre.stock, order_status |-> current_status,
          current_status |-> "none", valid_transitions |-> {},
          post_success |-> FALSE, logged |-> {}, reserved |-> pre.reserved]
    ELSE IF fault.kind = "status_commit"
    THEN [success |-> FALSE, outcome |-> "commit_failed", stock |-> pre.stock,
          order_status |-> current_status, current_status |-> current_status,
          valid_transitions |-> {}, post_success |-> FALSE, logged |-> {},
          reserved |-> pre.reserved]
    ELSE [success |-> TRUE, outcome |-> "changed", stock |-> pre.stock,
          order_status |-> new_status, current_status |-> new_status,
          valid_transitions |-> {},
          post_success |-> handle_post_transition_actions(new_status, fault).success,
          logged |-> log_status_change(order_id, current_status, new_status),
          reserved |-> pre.reserved]

\* ------------------------------------------ PUT /orders/<order_id>/status
TransitionOrderStatus(order_id, new_status, fault, release_faults) ==
    \E r \in {transition_order_status(stock, orders, order_id, new_status, fault,
                                       release_faults)} :
        /\ \A p \in Products : r.stock[p] <= MaxStock
        /\ stock' = r.stock
        /\ orders' = IF orders[order_id].exists
                     THEN [orders EXCEPT ![order_id].order_status = r.order_status]
                     ELSE orders
        /\ last' = [op |-> "transition_order_status",
                    cart_id |-> "none", customer_id |-> NoCustomer,
                    fault |-> fault, release_faults |-> release_faults,
                    order_id |-> order_id,
                    new_status |-> new_status,
                    success |-> r.success, outcome |-> r.outcome,
                    reserved |-> r.reserved,
                    pre_stock |-> stock, pre_cart |-> cart_items,
                    pre_orders |-> orders,
                    current_status |-> r.current_status,
                    valid_transitions |-> r.valid_transitions,
                    post_success |-> r.post_success, logged |-> r.logged]
        /\ UNCHANGED <<is_available, cart_items, used_ids>>
        /\ UNCHANGED raceVars

\* =======================================================================
\* Product.update_stock and DELETE /orders/<order_id>
\* =======================================================================

\* Product.update_stock on one product's (stock_quantity, is_available)
update_stock(stock_quantity, available, quantity_change) ==
    LET new_quantity == stock_quantity + quantity_change IN
    IF new_quantity < 0
    THEN [raised |-> TRUE, stock_quantity |-> stock_quantity,
          is_available |-> available]
    ELSE [raised |-> FALSE, stock_quantity |-> new_quantity,
          is_available |-> IF new_quantity = 0 THEN "False"
                           ELSE IF new_quantity > 0 /\ available = "False"
                           THEN "True" ELSE available]

\* lines 375-379: every order item's quantity goes back through update_stock
RECURSIVE restore_inventory(_, _, _, _)
restore_inventory(st, av, items, k) ==
    IF k > Len(items)
    THEN [stock |-> st, is_available |-> av]
    ELSE LET p == items[k].product_id
             u == update_stock(st[p], av[p], items[k].quantity)
         IN  restore_inventory([st EXCEPT ![p] = u.stock_quantity],
                               [av EXCEPT ![p] = u.is_available], items, k + 1)

\* the DELETE branch of handle_order
delete_order(st, av, ords, order_id) ==
    IF ~ords[order_id].exists
    THEN [outcome |-> "not_found", stock |-> st, is_available |-> av, orders |-> ords]
    ELSE IF ords[order_id].order_status \notin {"pending", "cancelled"}
    THEN [outcome |-> "refused", stock |-> st, is_available |-> av, orders |-> ords]
    ELSE LET restored == IF ords[order_id].order_status = "pending"
                         THEN restore_inventory(st, av, ords[order_id].order_items, 1)
                         ELSE [stock |-> st, is_available |-> av]
         IN  [outcome |-> "deleted", stock |-> restored.stock,
              is_available |-> restored.is_available,
              orders |-> [ords EXCEPT ![order_id] = NoOrder]]

\* ------------------------------------------------ DELETE /orders/<order_id>
DeleteOrder(order_id) ==
    \E r \in {delete_order(stock, is_available, orders, order_id)} :
    /\ \A p \in Products : r.stock[p] <= MaxStock
    /\ stock' = r.stock
    /\ is_available' = r.is_available
    /\ orders' = r.orders
    /\ last' = [op |-> "delete_order",
                cart_id |-> "none", customer_id |-> NoCustomer,
                fault |-> NoFault, release_faults |-> {},
                order_id |-> order_id,
                new_status |-> "none",
                success |-> r.outcome = "deleted", outcome |-> r.outcome,
                reserved |-> 0,
                pre_stock |-> stock, pre_cart |-> cart_items,
                pre_orders |-> orders,
                current_status |-> "none", valid_transitions |-> {},
                post_success |-> FALSE, logged |-> {}]
    /\ UNCHANGED <<cart_items, used_ids>>
    /\ UNCHANGED raceVars

\* =======================================================================
\* Order.update_order_status, PUT /orders/<order_id> and the payment route
\* =======================================================================

\* the statuses Order.update_order_status accepts
valid_statuses == {"pending", "confirmed", "shipped", "delivered", "cancelled"}

\* Order.update_order_status(new_status): any accepted status is assigned,
\* whatever the current one
update_order_status(order_status, new_status) ==
    IF new_status \notin valid_statuses
    THEN [raised |-> TRUE, order_status |-> order_status]
    ELSE [raised |-> FALSE, order_status |-> new_status]

\* handle_order, PUT with an order_status in the body
put_order(ords, order_id, new_status, commit_ok) ==
    IF ~ords[order_id].exists
    THEN [outcome |-> "not_found", orders |-> ords]
    ELSE LET u == update_order_status(ords[order_id].order_status, new_status)
         IN  IF u.raised THEN [outcome |-> "invalid_status", orders |-> ords]
             ELSE IF ~commit_ok THEN [outcome |-> "save_failed", orders |-> ords]
             ELSE [outcome |-> "updated",
                   orders |-> [ords EXCEPT ![order_id].order_status =
                                               u.order_status]]

\* process_order_payment: the mock gateway's answer is the input
\* payment_success
process_order_payment(ords, order_id, method_valid, payment_success, commit_ok) ==
    IF ~ords[order_id].exists
    THEN [outcome |-> "not_found", orders |-> ords]
    ELSE IF ords[order_id].order_status \notin {"pending", "confirmed"}
    THEN [outcome |-> "wrong_status", orders |-> ords]
    ELSE IF ~method_valid THEN [outcome |-> "invalid_method", orders |-> ords]
    ELSE IF ~payment_success THEN [outcome |-> "payment_failed", orders |-> ords]
    ELSE IF ~commit_ok THEN [outcome |-> "save_failed", orders |-> ords]
    ELSE [outcome |-> "paid",
          orders |-> [ords EXCEPT ![order_id].order_status =
                          update_order_status(@, "confirmed").order_status]]

\* ------------------------------------------------ PUT /orders/<order_id>
PutOrder(order_id, new_status, commit_ok) ==
    \E r \in {put_order(orders, order_id, new_status, commit_ok)} :
        /\ orders' = r.orders
        /\ last' = [op |-> "put_order", order_id |-> order_id,
                    new_status |-> new_status,
                    success |-> r.outcome = "updated", outcome |-> r.outcome,
                    pre_stock |-> stock, pre_cart |-> cart_items,
                    pre_orders |-> orders]
        /\ UNCHANGED <<stock, is_available, cart_items, used_ids>>
        /\ UNCHANGED raceVars

\* ------------------------------------ POST /orders/<order_id>/payment
ProcessOrderPayment(order_id, method_valid, payment_success, commit_ok) ==
    \E r \in {process_order_payment(orders, order_id, method_valid,
                                     payment_success, commit_ok)} :
        /\ orders' = r.orders
        /\ last' = [op |-> "process_order_payment", order_id |-> order_id,
                    new_status |-> "confirmed",
                    success |-> r.outcome = "paid", outcome |-> r.outcome,
                    pre_stock |-> stock, pre_cart |-> cart_items,
                    pre_orders |-> orders]
        /\ UNCHANGED <<stock, is_available, cart_items, used_ids>>
        /\ UNCHANGED raceVars

\* =======================================================================
\* Spec: the order flow, one request at a time
\* =======================================================================

\* the carts Cart.add_product builds: at most one line per product
Carts ==
    {<<>>}
        \cup {<<Line(p, q)>> : p \in Products, q \in Quantities}
        \cup {c \in {add_product(<<Line(p1, q1)>>, p2, q2) :
                         p1 \in Products, q1 \in Quantities,
                         p2 \in Products, q2 \in Quantities} : Len(c) = 2}

RaceIdle ==
    /\ rpc = [r \in {1, 2} |-> "idle"]
    /\ rqty = [r \in {1, 2} |-> 1]
    /\ rtmp = [r \in {1, 2} |-> 0]
    /\ rres = [r \in {1, 2} |-> "none"]
    /\ db_stock = stock
    /\ stock0 = stock

Init ==
    /\ stock \in [Products -> 0..MaxStock]
    /\ is_available = [p \in Products |-> IF stock[p] = 0 THEN "False" ELSE "True"]
    /\ cart_items \in Carts
    /\ orders = [o \in OrderIds |-> NoOrder]
    /\ used_ids = {}
    /\ last = [op |-> "init", cart_id |-> "none", customer_id |-> NoCustomer,
               fault |-> NoFault, release_faults |-> {},
               order_id |-> OrderId, new_status |-> "none",
               success |-> TRUE, outcome |-> "none", reserved |-> 0,
               pre_stock |-> stock, pre_cart |-> cart_items,
               pre_orders |-> orders,
               current_status |-> "none", valid_transitions |-> {},
               post_success |-> FALSE, logged |-> {}]
    /\ RaceIdle

ConvertCart ==
    \E c \in {CartId, MissingCartId}, u \in Customers \cup {NoCustomer},
       f \in ConversionFaults(Len(cart_items)),
       rf \in SUBSET (1..Len(cart_items)) :
        /\ conversion_validation(stock, c, u, NoHistory, cart_items) # "ok"
               => f = NoFault /\ rf = {}
        /\ f.kind \notin {"item_save", "reserve_commit", "total_save"} => rf = {}
        /\ c = MissingCartId => u = NoCustomer
        /\ CreateOrderFromCart(c, u, NoHistory, f, rf)

Transition ==
    \E o \in OrderIds, s \in OrderStatus \cup {InvalidStatus} :
    \E f \in TransitionFaults(Len(orders[o].order_items)),
       rf \in SUBSET (1..Len(orders[o].order_items)) :
        /\ ~can_transition_to(orders[o].order_status, s) => f = NoFault /\ rf = {}
        /\ s # "cancelled" => rf = {}
        /\ s # "confirmed" => f.kind # "post"
        /\ TransitionOrderStatus(o, s, f, rf)

Delete == \E o \in OrderIds : DeleteOrder(o)

Next == ConvertCart \/ Transition \/ Delete

Spec == Init /\ [][Next]_vars

\* =======================================================================
\* ConvertSpec: one create_order_from_cart call, for a customer whose
\* earlier orders are an input of the call
\* =======================================================================

Histories ==
    {History(d, m) : d \in {0, MAX_DAILY_ORDERS - 1, MAX_DAILY_ORDERS},
                     m \in {0, MAX_MONTHLY_ORDER_VALUE}}

ConvertOnce ==
    /\ last.op = "init"
    /\ \E c \in {CartId, MissingCartId}, u \in Customers \cup {NoCustomer},
          h \in Histories,
          f \in ConversionFaults(Len(cart_items)),
          rf \in SUBSET (1..Len(cart_items)) :
           /\ conversion_validation(stock, c, u, h, cart_items) # "ok"
                  => f = NoFault /\ rf = {}
           /\ f.kind \notin {"item_save", "reserve_commit", "total_save"}
                  => rf = {}
           /\ c = MissingCartId => u = NoCustomer
           /\ u = NoCustomer => h = NoHistory
           /\ CreateOrderFromCart(c, u, h, f, rf)

ConvertNext == ConvertOnce

ConvertSpec == Init /\ [][ConvertNext]_vars

\* =======================================================================
\* ConvertDeleteSpec: create_order_from_cart, then DELETE of the order it
\* left behind, with no status change in between
\* =======================================================================

\* the conversion succeeds, is refused, or fails at the reservation of a
\* line; every compensating release goes through
ConvertReserving ==
    \E c \in {CartId, MissingCartId}, u \in Customers \cup {NoCustomer},
       f \in {NoFault} \cup {Fault("reserve_commit", k) : k \in 1..Len(cart_items)} :
        /\ conversion_validation(stock, c, u, NoHistory, cart_items) # "ok"
               => f = NoFault
        /\ c = MissingCartId => u = NoCustomer
        /\ CreateOrderFromCart(c, u, NoHistory, f, {})

ConvertDeleteNext == ConvertReserving \/ Delete

ConvertDeleteSpec == Init /\ [][ConvertDeleteNext]_vars

\* =======================================================================
\* StatusSpec: every route that writes an order's status
\* =======================================================================

Put ==
    \E o \in OrderIds, s \in OrderStatus \cup {InvalidStatus},
       commit_ok \in BOOLEAN :
        PutOrder(o, s, commit_ok)

Pay ==
    \E o \in OrderIds, method_valid \in BOOLEAN, payment_success \in BOOLEAN,
       commit_ok \in BOOLEAN :
        /\ ~method_valid => payment_success /\ commit_ok
        /\ ~payment_success => commit_ok
        /\ ProcessOrderPayment(o, method_valid, payment_success, commit_ok)

StatusNext == ConvertCart \/ Transition \/ Put \/ Pay

StatusSpec == Init /\ [][StatusNext]_vars

\* =======================================================================
\* WalkSpec: the walks of one order through the status graph that
\* can_transition_to allows, up to MaxPath statuses long
\* =======================================================================

WalkInit ==
    /\ stock = [p \in Products |-> 0]
    /\ is_available = [p \in Products |-> "False"]
    /\ cart_items = <<>>
    /\ \E s \in OrderStatus :
           /\ orders = [o \in OrderIds |->
                           [exists |-> TRUE, order_status |-> s,
                            order_items |-> <<>>]]
           /\ last = [op |-> "walk", path |-> <<s>>]
    /\ used_ids = OrderIds
    /\ RaceIdle

\* one allowed change of status, appended to the walk
WalkStatus(new_status) ==
    /\ Len(last.path) < MaxPath
    /\ can_transition_to(orders[OrderId].order_status, new_status)
    /\ orders' = [orders EXCEPT ![OrderId].order_status = new_status]
    /\ last' = [op |-> "walk", path |-> Append(last.path, new_status)]
    /\ UNCHANGED <<stock, is_available, cart_items, used_ids>>
    /\ UNCHANGED raceVars

WalkNext == \E s \in OrderStatus \cup {InvalidStatus} : WalkStatus(s)

WalkSpec == WalkInit /\ [][WalkNext]_vars

\* =======================================================================
\* StockSpec: the stock operations, one request at a time
\* =======================================================================

StockInit ==
    /\ stock \in [Products -> 0..MaxStock]
    /\ is_available = [p \in Products |-> IF stock[p] = 0 THEN "False" ELSE "True"]
    /\ cart_items = <<>>
    /\ orders = [o \in OrderIds |-> NoOrder]
    /\ used_ids = {}
    /\ last = [op |-> "init", product_id |-> UnknownProduct, quantity |-> 0,
               success |-> TRUE, commit_ok |-> TRUE,
               pre_stock |-> stock, after_reserve |-> FALSE,
               reserve_pre_stock |-> stock, quantity_change |-> 0]
    /\ RaceIdle

Reserve ==
    \E p \in ProductIds, q \in Quantities, ok \in BOOLEAN : ReserveStock(p, q, ok)

Release ==
    \E p \in ProductIds, q \in Quantities, ok \in BOOLEAN : ReleaseStock(p, q, ok)

Adjust ==
    \E p \in ProductIds, n \in -1..MaxStock, ok \in BOOLEAN :
        UpdateStockQuantity(p, n, ok)

StockNext == Reserve \/ Release \/ Adjust

StockSpec == StockInit /\ [][StockNext]_vars

\* =======================================================================
\* RaceSpec: two reserve_stock requests for one product, interleaved
\* =======================================================================

Requests == {1, 2}
RaceProduct == "A"

RaceInit ==
    /\ stock \in [Products -> 0..MaxStock]
    /\ is_available = [p \in Products |-> IF stock[p] = 0 THEN "False" ELSE "True"]
    /\ cart_items = <<>>
    /\ orders = [o \in OrderIds |-> NoOrder]
    /\ used_ids = {}
    /\ last = [op |-> "init", product_id |-> UnknownProduct, quantity |-> 0,
               success |-> TRUE, commit_ok |-> TRUE,
               pre_stock |-> stock, after_reserve |-> FALSE,
               reserve_pre_stock |-> stock, quantity_change |-> 0]
    /\ RaceIdle

\* the request arrives: reserve_stock(RaceProduct, quantity)
RaceStart(r, quantity) ==
    /\ rpc[r] = "idle"
    /\ rpc' = [rpc EXCEPT ![r] = "check"]
    /\ rqty' = [rqty EXCEPT ![r] = quantity]
    /\ UNCHANGED <<stock, rtmp, rres, db_stock, stock0>>
    /\ UNCHANGED shopVars

\* lines 125-132: the availability check on the shared session's Product
RaceCheck(r) ==
    /\ rpc[r] = "check"
    /\ IF check_stock_availability(stock, RaceProduct, rqty[r]).available
       THEN /\ rpc' = [rpc EXCEPT ![r] = "load"]
            /\ rres' = rres
       ELSE /\ rpc' = [rpc EXCEPT ![r] = "done"]
            /\ rres' = [rres EXCEPT ![r] = "failed"]
    /\ UNCHANGED <<stock, rqty, rtmp, db_stock, stock0>>
    /\ UNCHANGED shopVars

\* line 137, product.stock_quantity -= quantity: the read
RaceLoad(r) ==
    /\ rpc[r] = "load"
    /\ rtmp' = [rtmp EXCEPT ![r] = stock[RaceProduct]]
    /\ rpc' = [rpc EXCEPT ![r] = "store"]
    /\ UNCHANGED <<stock, rqty, rres, db_stock, stock0>>
    /\ UNCHANGED shopVars

\* line 137, product.stock_quantity -= quantity: the write
RaceStore(r) ==
    /\ rpc[r] = "store"
    /\ stock' = [stock EXCEPT ![RaceProduct] = rtmp[r] - rqty[r]]
    /\ rpc' = [rpc EXCEPT ![r] = "commit"]
    /\ UNCHANGED <<rqty, rtmp, rres, db_stock, stock0>>
    /\ UNCHANGED shopVars

\* lines 139-140 and 161-167: commit; a commit that raises is rolled back
RaceCommit(r, commit_ok) ==
    /\ rpc[r] = "commit"
    /\ IF commit_ok
       THEN /\ db_stock' = stock
            /\ stock' = stock
            /\ rres' = [rres EXCEPT ![r] = "reserved"]
       ELSE /\ stock' = db_stock
            /\ db_stock' = db_stock
            /\ rres' = [rres EXCEPT ![r] = "failed"]
    /\ rpc' = [rpc EXCEPT ![r] = "done"]
    /\ UNCHANGED <<rqty, rtmp, stock0>>
    /\ UNCHANGED shopVars

Start == \E r \in Requests, q \in Quantities : RaceStart(r, q)
Check == \E r \in Requests : RaceCheck(r)
Load == \E r \in Requests : RaceLoad(r)
Store == \E r \in Requests : RaceStore(r)
Commit == \E r \in Requests, ok \in BOOLEAN : RaceCommit(r, ok)

RaceNext == Start \/ Check \/ Load \/ Store \/ Commit

RaceSpec == RaceInit /\ [][RaceNext]_vars

\* the total quantity the requests were told they reserved
ReservedTotal ==
    (IF rres[1] = "reserved" THEN rqty[1] ELSE 0)
        + (IF rres[2] = "reserved" THEN rqty[2] ELSE 0)

\* =======================================================================
\* ConfirmRaceSpec: two transition_order_status(o1, confirmed) requests on
\* one pending order, interleaved at the read of the status, the
\* reservation of the items and the commit of the status
\* =======================================================================

ConfirmRaceInit ==
    /\ stock \in [Products -> 0..MaxStock]
    /\ is_available = [p \in Products |-> IF stock[p] = 0 THEN "False" ELSE "True"]
    /\ cart_items = <<>>
    /\ \E items \in Carts \ {<<>>} :
           orders = [o \in OrderIds |->
                        [exists |-> TRUE, order_status |-> "pending",
                         order_items |-> order_items_created(items, Len(items))]]
    /\ used_ids = OrderIds
    /\ last = [op |-> "confirm_race"]
    /\ RaceIdle

\* lines 117-134: the request reads the order's status and validates the
\* transition
ConfirmRead(r) ==
    /\ rpc[r] = "idle"
    /\ IF can_transition_to(orders[OrderId].order_status, "confirmed")
       THEN /\ rpc' = [rpc EXCEPT ![r] = "reserve"]
            /\ rres' = rres
       ELSE /\ rpc' = [rpc EXCEPT ![r] = "done"]
            /\ rres' = [rres EXCEPT ![r] = "failed"]
    /\ UNCHANGED <<stock, rqty, rtmp, db_stock, stock0>>
    /\ UNCHANGED shopVars

\* lines 136-142: the pre-transition actions chosen from the status that was
\* read (pending): reserve every order item
ConfirmReserve(r, fault) ==
    /\ rpc[r] = "reserve"
    /\ \E pre \in {handle_pre_transition_actions(
                        stock, orders[OrderId].order_items, "pending",
                        "confirmed", fault, {})} :
           /\ stock' = pre.stock
           /\ IF pre.success
              THEN /\ rpc' = [rpc EXCEPT ![r] = "commit"]
                   /\ rres' = rres
              ELSE /\ rpc' = [rpc EXCEPT ![r] = "done"]
                   /\ rres' = [rres EXCEPT ![r] = "failed"]
    /\ UNCHANGED <<rqty, rtmp, db_stock, stock0>>
    /\ UNCHANGED shopVars

\* lines 144-179: the status is assigned and committed
ConfirmCommit(r, commit_ok) ==
    /\ rpc[r] = "commit"
    /\ rpc' = [rpc EXCEPT ![r] = "done"]
    /\ rres' = [rres EXCEPT ![r] = IF commit_ok THEN "success" ELSE "failed"]
    /\ orders' = IF commit_ok
                 THEN [orders EXCEPT ![OrderId].order_status = "confirmed"]
                 ELSE orders
    /\ UNCHANGED <<stock, rqty, rtmp, db_stock, stock0>>
    /\ UNCHANGED <<is_available, cart_items, used_ids, last>>

Read == \E r \in Requests : ConfirmRead(r)

ReserveItems ==
    \E r \in Requests :
    \E f \in {NoFault} \cup {Fault("reserve_commit", k) :
                                 k \in 1..Len(orders[OrderId].order_items)} :
        ConfirmReserve(r, f)

CommitStatus == \E r \in Requests, commit_ok \in BOOLEAN : ConfirmCommit(r, commit_ok)

ConfirmRaceNext == Read \/ ReserveItems \/ CommitStatus

ConfirmRaceSpec == ConfirmRaceInit /\ [][ConfirmRaceNext]_vars

\* =======================================================================
\* CartSpec: the cart is built by two Cart.add_product requests, which may
\* interleave between the scan for an existing line and the write; when
\* both are over, the cart is converted with nothing else running
\* =======================================================================

CartInit ==
    /\ stock \in [Products -> 0..MaxStock]
    /\ is_available = [p \in Products |-> IF stock[p] = 0 THEN "False" ELSE "True"]
    /\ cart_items = <<>>
    /\ orders = [o \in OrderIds |-> NoOrder]
    /\ used_ids = {}
    /\ last = [op |-> "init"]
    /\ rpc = [r \in Requests |-> "idle"]
    /\ rqty = [r \in Requests |-> 1]
    /\ rtmp = [r \in Requests |-> 0]
    /\ rres = [r \in Requests |-> "none"]
    /\ db_stock = stock
    /\ stock0 = stock

\* cart.py lines 72-78: the product exists and the quantity is positive
AddProductStart(r, product_id, quantity) ==
    /\ rpc[r] = "idle"
    /\ last.op = "init"
    /\ product_id \in Products
    /\ quantity > 0
    /\ rpc' = [rpc EXCEPT ![r] = "scan"]
    /\ rres' = [rres EXCEPT ![r] = product_id]
    /\ rqty' = [rqty EXCEPT ![r] = quantity]
    /\ UNCHANGED <<stock, rtmp, db_stock, stock0>>
    /\ UNCHANGED shopVars

\* cart.py lines 80-85: look for a line of the product; 0 when there is none
AddProductScan(r) ==
    /\ rpc[r] = "scan"
    /\ rtmp' = [rtmp EXCEPT ![r] =
                   IF \E i \in 1..Len(cart_items) : cart_items[i].product_id = rres[r]
                   THEN CHOOSE i \in 1..Len(cart_items) :
                            /\ cart_items[i].product_id = rres[r]
                            /\ \A j \in 1..(i - 1) :
                                   cart_items[j].product_id # rres[r]
                   ELSE 0]
    /\ rpc' = [rpc EXCEPT ![r] = "write"]
    /\ UNCHANGED <<stock, rqty, rres, db_stock, stock0>>
    /\ UNCHANGED shopVars

\* cart.py lines 87-101: add to the line that was found, or append a new one
AddProductWrite(r) ==
    /\ rpc[r] = "write"
    /\ cart_items' = IF rtmp[r] # 0
                     THEN [cart_items EXCEPT ![rtmp[r]].quantity = @ + rqty[r]]
                     ELSE Append(cart_items, Line(rres[r], rqty[r]))
    /\ rpc' = [rpc EXCEPT ![r] = "done"]
    /\ UNCHANGED <<stock, rqty, rtmp, rres, db_stock, stock0>>
    /\ UNCHANGED <<is_available, orders, used_ids, last>>

\* create_order_from_cart by the cart's owner once no request is running
ConvertBuiltCart ==
    /\ \A r \in Requests : rpc[r] \in {"idle", "done"}
    /\ last.op = "init"
    /\ CreateOrderFromCart(CartId, CartOwner, NoHistory, NoFault, {})

AddStart ==
    \E r \in Requests, p \in Products, q \in Quantities : AddProductStart(r, p, q)

AddScan == \E r \in Requests : AddProductScan(r)

AddWrite == \E r \in Requests : AddProductWrite(r)

CartNext == AddStart \/ AddScan \/ AddWrite \/ ConvertBuiltCart

CartSpec == CartInit /\ [][CartNext]_vars

\* =======================================================================
\* BulkSpec: one bulk_transition_orders call over two orders
\* =======================================================================

MaxBulk == 2

BulkOrderIds == {"o1", "o2"}
BulkStatuses == {"pending", "confirmed", "delivered"}

\* the orders a bulk call finds: missing, or in some status with one line
BulkOrders ==
    {NoOrder}
        \cup {[exists |-> TRUE, order_status |-> s, order_items |-> <<Line(p, 1)>>] :
                  s \in BulkStatuses, p \in Products}

\* per position of the list, the commit of that transition that raises
BulkFaults == {NoFault, Fault("status_commit", 0), Fault("reserve_commit", 1)}

\* lines 199-210: one transition_order_status per id, in list order
RECURSIVE bulk_loop_StopAtFailure(_, _, _, _, _, _, _)
bulk_loop_StopAtFailure(st, ords, order_ids, new_status, faults, i, acc) ==
    IF i > Len(order_ids)
    THEN [stock |-> st, orders |-> ords, results |-> acc]
    ELSE LET order_id == order_ids[i]
             result == transition_order_status(st, ords, order_id, new_status,
                                               faults[i], {})
             entry == [order_id |-> order_id, result |-> result]
         IN  IF ~result.success
             THEN [stock |-> result.stock, orders |-> ords,
                   results |-> Append(acc, entry)]
             ELSE bulk_loop_StopAtFailure(
                      result.stock,
                      [ords EXCEPT ![order_id].order_status = result.order_status],
                      order_ids, new_status, faults, i + 1, Append(acc, entry))

RECURSIVE bulk_loop(_, _, _, _, _, _, _)
bulk_loop(st, ords, order_ids, new_status, faults, i, acc) ==
    IF i > Len(order_ids)
    THEN [stock |-> st, orders |-> ords, results |-> acc]
    ELSE LET order_id == order_ids[i]
             result == transition_order_status(st, ords, order_id, new_status,
                                               faults[i], {})
         IN  bulk_loop(result.stock,
                       IF ords[order_id].exists
                       THEN [ords EXCEPT ![order_id].order_status = result.order_status]
                       ELSE ords,
                       order_ids, new_status, faults, i + 1,
                       Append(acc, [order_id |-> order_id, result |-> result]))

\* bulk_transition_orders(order_ids, new_status)
bulk_transition_orders(st, ords, order_ids, new_status, faults) ==
    LET done == bulk_loop(st, ords, order_ids, new_status, faults, 1, <<>>)
        successes == {i \in 1..Len(done.results) : done.results[i].result.success}
        failures == {i \in 1..Len(done.results) : ~done.results[i].result.success}
    IN  [stock |-> done.stock, orders |-> done.orders,
         total_orders |-> Len(order_ids),
         successful_transitions |-> Cardinality(successes),
         failed_transitions |-> Cardinality(failures),
         results |-> done.results]

BulkTransitionOrders(order_ids, new_status, faults) ==
    /\ last.op = "init"
    /\ \E r \in {bulk_transition_orders(stock, orders, order_ids, new_status, faults)} :
       /\ stock' = r.stock
       /\ orders' = r.orders
       /\ last' = [op |-> "bulk_transition_orders", order_ids |-> order_ids,
                   new_status |-> new_status, faults |-> faults,
                   pre_stock |-> stock, pre_orders |-> orders,
                   total_orders |-> r.total_orders,
                   successful_transitions |-> r.successful_transitions,
                   failed_transitions |-> r.failed_transitions,
                   results |-> r.results]
       /\ UNCHANGED <<is_available, cart_items, used_ids>>
       /\ UNCHANGED raceVars

BulkInit ==
    /\ stock \in [Products -> 0..MaxStock]
    /\ is_available = [p \in Products |-> IF stock[p] = 0 THEN "False" ELSE "True"]
    /\ cart_items = <<>>
    /\ orders \in [BulkOrderIds -> BulkOrders]
    /\ used_ids = {o \in BulkOrderIds : orders[o].exists}
    /\ last = [op |-> "init"]
    /\ RaceIdle

IdLists == UNION {[1..n -> BulkOrderIds] : n \in 1..MaxBulk}

BulkNext ==
    /\ last.op = "init"
    /\ \E ids \in IdLists, s \in OrderStatus :
       \E fs \in [1..Len(ids) -> BulkFaults] :
           /\ s # "confirmed" => \A i \in 1..Len(ids) : fs[i].kind # "reserve_commit"
           /\ BulkTransitionOrders(ids, s, fs)

BulkSpec == BulkInit /\ [][BulkNext]_vars

\* =======================================================================
\* PricingCalculator: amounts in cents, rates in 1/10000, weights in 1/10 kg
\* =======================================================================

MaxUnits == 2
MaxPrice == 7

\* Decimal.quantize(Decimal('0.01'), ROUND_HALF_UP) of num/den cents, num >= 0
quantize(num, den) == (2 * num + den) \div (2 * den)

TAX_RATES(tax_region) ==
    CASE tax_region = "CA" -> 875
      [] tax_region = "NY" -> 800
      [] tax_region = "TX" -> 625
      [] tax_region = "FL" -> 600
      [] tax_region = "WA" -> 650
      [] OTHER             -> 700

SHIPPING_RATES(shipping_method) ==
    CASE shipping_method = "express" ->
             [base_rate |-> 1299, per_kg |-> 400, free_shipping_threshold |-> 15000]
      [] shipping_method = "overnight" ->
             [base_rate |-> 2499, per_kg |-> 800, free_shipping_threshold |-> 20000]
      [] OTHER ->
             [base_rate |-> 599, per_kg |-> 250, free_shipping_threshold |-> 7500]

\* the discount_codes table of apply_discount; min_amount 0 is no minimum
discount_codes(discount_code) ==
    CASE discount_code = "WELCOME10" -> [type |-> "percentage", value |-> 10, min_amount |-> 0]
      [] discount_code = "SAVE20"    -> [type |-> "percentage", value |-> 20, min_amount |-> 0]
      [] discount_code = "NEWUSER"   -> [type |-> "amount", value |-> 1500, min_amount |-> 0]
      [] discount_code = "FREESHIP"  -> [type |-> "percentage", value |-> 5, min_amount |-> 0]
      [] discount_code = "BULK25"    -> [type |-> "percentage", value |-> 25, min_amount |-> 10000]

DiscountCodes == {"WELCOME10", "SAVE20", "NEWUSER", "FREESHIP", "BULK25"}

\* calculate_subtotal: sum of quantity * unit_price; -1 when it raises
RECURSIVE calculate_subtotal(_)
calculate_subtotal(order_items) ==
    IF order_items = <<>>
    THEN 0
    ELSE LET item == Head(order_items)
             rest == calculate_subtotal(Tail(order_items))
         IN  IF item.quantity < 0 \/ item.unit_price < 0 \/ rest < 0
             THEN -1
             ELSE item.quantity * item.unit_price + rest

\* the discount before clamping, in 1/100 cent, for an accepted input
discount_value(subtotal, discount) ==
    IF discount.kind = "code" /\ discount.code \in DiscountCodes
    THEN IF discount_codes(discount.code).type = "percentage"
         THEN subtotal * discount_codes(discount.code).value
         ELSE 100 * discount_codes(discount.code).value
    ELSE IF discount.kind = "percentage"
    THEN subtotal * discount.value
    ELSE IF discount.kind = "amount"
    THEN 100 * discount.value
    ELSE 0

\* apply_discount: (discounted_amount, discount_applied), each quantized
apply_discount_NoClamp(subtotal, discount) ==
    [raised |-> FALSE,
     discounted_amount |-> quantize(100 * subtotal, 100),
     discount_applied |-> quantize(discount_value(subtotal, discount), 100)]

apply_discount(subtotal, discount) ==
    IF \/ /\ discount.kind = "code" /\ discount.code \in DiscountCodes
          /\ subtotal < discount_codes(discount.code).min_amount
       \/ /\ discount.kind = "percentage"
          /\ ~(0 <= discount.value /\ discount.value <= 100)
       \/ /\ discount.kind = "amount"
          /\ discount.value < 0
    THEN [raised |-> TRUE, discounted_amount |-> 0, discount_applied |-> 0]
    ELSE LET value == discount_value(subtotal, discount)
             discount_applied == IF value > 100 * subtotal
                                 THEN 100 * subtotal ELSE value
             discounted_amount == 100 * subtotal - discount_applied
         IN  [raised |-> FALSE,
              discounted_amount |-> quantize(discounted_amount, 100),
              discount_applied |-> quantize(discount_applied, 100)]

\* calculate_tax
calculate_tax(taxable_amount, tax_region, tax_exempt) ==
    IF tax_exempt \/ taxable_amount <= 0
    THEN 0
    ELSE quantize(taxable_amount * TAX_RATES(tax_region), 10000)

\* _calculate_distance_multiplier, in tenths; "none" is no address given
calculate_distance_multiplier(shipping_address) ==
    CASE shipping_address = "international" -> 20
      [] shipping_address = "local"         -> 10
      [] shipping_address = "distant"       -> 13
      [] OTHER                              -> 10

\* calculate_shipping
calculate_shipping_FlatRate(subtotal, shipping_method, total_weight, shipping_address) ==
    IF subtotal >= SHIPPING_RATES(shipping_method).free_shipping_threshold
    THEN 0
    ELSE SHIPPING_RATES(shipping_method).base_rate

calculate_shipping(subtotal, shipping_method, total_weight, shipping_address) ==
    LET shipping_config == SHIPPING_RATES(shipping_method)
        weight == IF total_weight < 1 THEN 1 ELSE total_weight
        \* base_rate + weight * per_kg, in 1/10 cent
        total_shipping == 10 * shipping_config.base_rate
                              + weight * shipping_config.per_kg
    IN  IF subtotal >= shipping_config.free_shipping_threshold
        THEN 0
        ELSE quantize(total_shipping * calculate_distance_multiplier(shipping_address),
                      100)

ShippingMethods == {"standard", "express", "overnight"}

\* calculate_order_total; a shipping method outside SHIPPING_RATES is priced
\* as standard by calculate_shipping and then raises KeyError at line 303
calculate_order_total(order_items, discount, tax, shipping) ==
    LET subtotal == calculate_subtotal(order_items)
        discounted == apply_discount(subtotal, discount)
        discounted_subtotal == discounted.discounted_amount
        tax_amount == calculate_tax(discounted_subtotal, tax.tax_region,
                                    tax.tax_exempt)
        shipping_cost == calculate_shipping(discounted_subtotal,
                                            shipping.shipping_method,
                                            shipping.total_weight,
                                            shipping.shipping_address)
    IN  IF \/ subtotal < 0
           \/ discounted.raised
           \/ shipping.shipping_method \notin ShippingMethods
        THEN [raised |-> TRUE, subtotal |-> 0, discount_applied |-> 0,
              discounted_subtotal |-> 0, tax_amount |-> 0, shipping_cost |-> 0,
              final_total |-> 0]
        ELSE [raised |-> FALSE, subtotal |-> subtotal,
              discount_applied |-> discounted.discount_applied,
              discounted_subtotal |-> discounted_subtotal,
              tax_amount |-> tax_amount, shipping_cost |-> shipping_cost,
              final_total |-> discounted_subtotal + tax_amount + shipping_cost]

\* ----------------------------------------------------------- PriceSpec
\* one calculate_order_total call on inputs drawn from the sets below

PriceLine(q, u) == [quantity |-> q, unit_price |-> u]

UnitPrices == (-1..MaxPrice) \cup {1000, 4000, 10000}

OrderItemLists ==
    {<<PriceLine(q, u)>> : q \in 0..MaxUnits, u \in UnitPrices}
        \cup {<<PriceLine(q1, u1), PriceLine(q2, u2)>> :
                  q1 \in 1..MaxUnits, u1 \in {5, 1000},
                  q2 \in 1..MaxUnits, u2 \in {5, 1000}}

DiscountInputs ==
    {[kind |-> "none", code |-> "none", value |-> 0]}
        \cup {[kind |-> "code", code |-> c, value |-> 0] :
                  c \in DiscountCodes \cup {"UNKNOWN"}}
        \cup {[kind |-> "percentage", code |-> "none", value |-> v] :
                  v \in {-1, 0, 10, 50, 100, 101}}
        \cup {[kind |-> "amount", code |-> "none", value |-> v] :
                  v \in {-1, 0, 5, 2500}}

TaxInputs ==
    {[tax_region |-> t, tax_exempt |-> FALSE] :
         t \in {"CA", "NY", "TX", "FL", "WA", "DEFAULT", "ZZ"}}
        \cup {[tax_region |-> "DEFAULT", tax_exempt |-> TRUE]}

ShippingInputs ==
    [shipping_method : ShippingMethods \cup {"pigeon"},
     total_weight : {0, 10, 25},
     shipping_address : {"none", "local", "distant", "international"}]

CalculateOrderTotal(order_items, discount, tax, shipping) ==
    /\ last.op = "init"
    /\ last' = [op |-> "calculate_order_total", order_items |-> order_items,
                discount |-> discount, tax |-> tax, shipping |-> shipping,
                result |-> calculate_order_total(order_items, discount, tax,
                                                 shipping)]
    /\ UNCHANGED <<stock, is_available, cart_items, orders, used_ids>>
    /\ UNCHANGED raceVars

PriceInit ==
    /\ stock = [p \in Products |-> 0]
    /\ is_available = [p \in Products |-> "False"]
    /\ cart_items = <<>>
    /\ orders = [o \in OrderIds |-> NoOrder]
    /\ used_ids = {}
    /\ last = [op |-> "init"]
    /\ RaceIdle

PriceNext ==
    /\ last.op = "init"
    /\ \E items \in OrderItemLists, d \in DiscountInputs, t \in TaxInputs,
          sh \in ShippingInputs :
           CalculateOrderTotal(items, d, t, sh)

PriceSpec == PriceInit /\ [][PriceNext]_vars

\* =======================================================================
\* Properties
\* =======================================================================

\* the state before the last request of the order flow
PreOrder == last.pre_orders[last.order_id]
PreItems == PreOrder.order_items

\* C1 (StockSpec): stock_quantity is never negative, and a reserve_stock
\* whose quantity exceeds the current stock reports success = false and
\* leaves every stock_quantity as it was.
C1_NoOversell ==
    /\ \A p \in Products : stock[p] >= 0
    /\ (/\ last.op = "reserve_stock"
        /\ last.product_id \in Products
        /\ last.quantity > last.pre_stock[last.product_id])
           => ~last.success /\ stock = last.pre_stock

\* C1 witness: a reservation against an exhausted product failed, stock still 0
C1_Witness ==
    /\ last.op = "reserve_stock"
    /\ last.product_id \in Products
    /\ last.quantity > 0
    /\ last.pre_stock[last.product_id] = 0
    /\ ~last.success
    /\ stock[last.product_id] = 0

\* C2 (RaceSpec): under every interleaving of two reserve_stock requests for
\* one product, stock_quantity is never negative and the quantity reported as
\* reserved never exceeds the stock available before the two requests.
C2_NoConcurrentOversell ==
    /\ stock[RaceProduct] >= 0
    /\ ReservedTotal <= stock0[RaceProduct]

\* C3 (Spec): when create_order_from_cart fails because the reservation of
\* line k failed after lines 1..k-1 were reserved, the stock_quantity of
\* every product of lines 1..k-1 is what it was before the routine started.
C3_CompensationRestores ==
    (/\ last.op = "create_order_from_cart"
     /\ last.outcome = "reservation_failed")
        => \A i \in 1..last.reserved :
               stock[last.pre_cart[i].product_id]
                   = last.pre_stock[last.pre_cart[i].product_id]

\* the transition table as C4 states it
AllowedNext(s) ==
    CASE s = "pending"    -> {"confirmed", "cancelled", "failed"}
      [] s = "confirmed"  -> {"processing", "cancelled"}
      [] s = "processing" -> {"shipped", "cancelled"}
      [] s = "shipped"    -> {"delivered", "cancelled"}
      [] s = "delivered"  -> {"refunded"}
      [] s = "cancelled"  -> {}
      [] s = "refunded"   -> {}
      [] s = "failed"     -> {"pending"}

\* C4 (Spec): transition_order_status towards a status outside the allowed
\* set of the current status is rejected with a result (nothing is raised),
\* the result carries the current status and exactly the allowed next
\* statuses, and the order's status and every stock are unchanged.
C4_InvalidTransitionRejected ==
    (/\ last.op = "transition_order_status"
     /\ PreOrder.exists
     /\ last.new_status \notin AllowedNext(PreOrder.order_status))
        => /\ ~last.success
           /\ last.outcome = "invalid_transition"
           /\ last.current_status = PreOrder.order_status
           /\ last.valid_transitions = AllowedNext(PreOrder.order_status)
           /\ orders[last.order_id].order_status = PreOrder.order_status
           /\ stock = last.pre_stock

\* C4 witness: pending -> shipped was rejected with {confirmed, cancelled, failed}
C4_Witness ==
    /\ last.op = "transition_order_status"
    /\ PreOrder.exists
    /\ PreOrder.order_status = "pending"
    /\ last.new_status = "shipped"
    /\ last.outcome = "invalid_transition"
    /\ last.valid_transitions = {"confirmed", "cancelled", "failed"}
    /\ orders[last.order_id].order_status = "pending"

\* C5 (Spec): when confirming a pending order fails because the reservation
\* of a line item fails, the order is still pending and the stock_quantity
\* of every product of the order is what it was before the call.
C5_ConfirmFailureRestores ==
    (/\ last.op = "transition_order_status"
     /\ last.new_status = "confirmed"
     /\ last.outcome = "pre_transition_failed")
        => /\ orders[last.order_id].order_status = "pending"
           /\ \A k \in 1..Len(PreItems) :
                  stock[PreItems[k].product_id]
                      = last.pre_stock[PreItems[k].product_id]

\* the inputs on which the validation phase of create_order_from_cart fails
ValidationFails ==
    \/ last.cart_id # CartId
    \/ last.customer_id \notin {NoCustomer, CartOwner}
    \/ last.pre_cart = <<>>
    \/ \E i \in 1..Len(last.pre_cart) :
           last.pre_cart[i].quantity > last.pre_stock[last.pre_cart[i].product_id]

\* C6 (Spec): when create_order_from_cart fails in its validation phase
\* (cart missing, cart of another customer, empty cart, a line asking for
\* more than the product's stock), no order and no order item was created,
\* no stock_quantity changed and the cart's items are unchanged.
C6_ValidationFailureMutatesNothing ==
    (last.op = "create_order_from_cart" /\ ValidationFails)
        => /\ ~last.success
           /\ orders = last.pre_orders
           /\ stock = last.pre_stock
           /\ cart_items = last.pre_cart

\* C6 witness: two lines, one available and one not; nothing was touched
C6_Witness ==
    /\ last.op = "create_order_from_cart"
    /\ last.outcome = "insufficient_stock"
    /\ Len(last.pre_cart) = 2
    /\ \E i \in 1..2 :
           /\ last.pre_cart[i].quantity <= last.pre_stock[last.pre_cart[i].product_id]
           /\ stock[last.pre_cart[i].product_id]
                  = last.pre_stock[last.pre_cart[i].product_id]
    /\ \E i \in 1..2 : last.pre_stock[last.pre_cart[i].product_id] = 0
    /\ orders = last.pre_orders
    /\ cart_items = last.pre_cart

C8_CartClearedOnlyOnSuccess ==
    last.op = "create_order_from_cart"
        => /\ cart_items # last.pre_cart
               => /\ last.outcome = "created"
                  /\ orders[OrderId].exists
                  /\ orders[OrderId].order_items = last.pre_cart
                  /\ last.reserved = Len(last.pre_cart)
           /\ ~last.success => cart_items = last.pre_cart

\* C8 witness: a run that failed after reserving a line, the cart is intact
C8_Witness ==
    /\ last.op = "create_order_from_cart"
    /\ ~last.success
    /\ last.reserved >= 1
    /\ orders[OrderId].exists
    /\ cart_items = last.pre_cart
    /\ Len(cart_items) = 2

\* C9 (StockSpec): after a stock mutation, the product's is_available is
\* 'False' if and only if its stock_quantity is 0.
C9_AvailabilityFlagConsistent ==
    (/\ last.op \in {"reserve_stock", "release_stock", "update_stock_quantity"}
     /\ last.success)
        => (is_available[last.product_id] = "False"
                <=> stock[last.product_id] = 0)

\* C10 (Spec): every transition_order_status on an existing order logs one
\* entry with the order id, the old status and the requested status,
\* whatever the outcome.
C10_EveryAttemptLogged ==
    (last.op = "transition_order_status" /\ PreOrder.exists)
        => last.logged = {[order_id |-> last.order_id,
                           old_status |-> PreOrder.order_status,
                           new_status |-> last.new_status]}

\* the quantity of product p in lines k..Len(items) whose release committed
RECURSIVE ReleasedQuantity(_, _, _, _)
ReleasedQuantity(items, k, release_faults, p) ==
    IF k > Len(items)
    THEN 0
    ELSE (IF items[k].product_id = p /\ k \notin release_faults
          THEN items[k].quantity ELSE 0)
             + ReleasedQuantity(items, k + 1, release_faults, p)

RECURSIVE StandAloneBefore(_, _, _, _)
StandAloneBefore(st, ords, j, i) ==
    IF j >= i
    THEN [stock |-> st, orders |-> ords]
    ELSE LET order_id == last.order_ids[j]
             r == transition_order_status(st, ords, order_id, last.new_status,
                                          last.faults[j], {})
         IN  StandAloneBefore(r.stock,
                              IF ords[order_id].exists
                              THEN [ords EXCEPT ![order_id].order_status = r.order_status]
                              ELSE ords,
                              j + 1, i)

\* C12 (BulkSpec): bulk_transition_orders gives every id of the list, in
\* order, the outcome of a stand-alone transition_order_status call; a
\* failed or rejected transition does not stop the later ones; and
\* successful_transitions + failed_transitions is the number of ids.
C12_BulkIsIndependent ==
    last.op = "bulk_transition_orders"
        => /\ Len(last.results) = Len(last.order_ids)
           /\ last.total_orders = Len(last.order_ids)
           /\ last.successful_transitions + last.failed_transitions
                  = Len(last.order_ids)
           /\ \A i \in 1..Len(last.order_ids) :
                  LET before == StandAloneBefore(last.pre_stock, last.pre_orders, 1, i)
                  IN  /\ last.results[i].order_id = last.order_ids[i]
                      /\ last.results[i].result
                             = transition_order_status(before.stock, before.orders,
                                                       last.order_ids[i], last.new_status,
                                                       last.faults[i], {})
           /\ LET after == StandAloneBefore(last.pre_stock, last.pre_orders, 1,
                                            Len(last.order_ids) + 1)
              IN  stock = after.stock /\ orders = after.orders

\* C12 witness: the first order's transition failed, the second order's
\* transition was still made
C12_Witness ==
    /\ last.op = "bulk_transition_orders"
    /\ Len(last.order_ids) = 2
    /\ last.order_ids[1] # last.order_ids[2]
    /\ ~last.results[1].result.success
    /\ last.results[2].result.success
    /\ orders[last.order_ids[2]].order_status = last.new_status
    /\ last.successful_transitions = 1
    /\ last.failed_transitions = 1

\* C13 (Spec): post-transition side effects run only once the new status is
\* committed, and a failing side effect (the pricing recompute on entering
\* confirmed) does not undo it: the call reports success, reports the side
\* effect's failure, and the order is in the new status.
C13_PostTransitionAfterCommit ==
    last.op = "transition_order_status"
        => /\ last.post_success
               => /\ last.outcome = "changed"
                  /\ orders[last.order_id].order_status = last.new_status
           /\ (/\ PreOrder.exists
               /\ PreOrder.order_status = "pending"
               /\ last.new_status = "confirmed"
               /\ last.fault.kind = "post"
               /\ last.outcome # "pre_transition_failed")
                  => /\ last.success
                     /\ ~last.post_success
                     /\ orders[last.order_id].order_status = "confirmed"

\* C13 witness: the pricing recompute failed on a confirmation that went through
C13_Witness ==
    /\ last.op = "transition_order_status"
    /\ PreOrder.order_status = "pending"
    /\ last.new_status = "confirmed"
    /\ last.fault.kind = "post"
    /\ last.success
    /\ ~last.post_success
    /\ orders[last.order_id].order_status = "confirmed"

\* C14 (PriceSpec): for valid inputs, final_total is exactly
\* discounted_subtotal + tax_amount + shipping_cost, and
\* discounted_subtotal is exactly subtotal - discount_applied.
C14_TotalIsSumOfParts ==
    (last.op = "calculate_order_total" /\ ~last.result.raised)
        => /\ last.result.final_total
                  = last.result.discounted_subtotal + last.result.tax_amount
                        + last.result.shipping_cost
           /\ last.result.discounted_subtotal
                  = last.result.subtotal - last.result.discount_applied

\* C15 (PriceSpec): for a subtotal S >= 0 and an accepted discount input,
\* apply_discount returns 0 <= discount_applied <= S and a discounted
\* amount that is not negative.
C15_DiscountClamped ==
    last.op = "calculate_order_total"
        => LET S == calculate_subtotal(last.order_items)
               d == apply_discount(S, last.discount)
           IN  /\ (S >= 0 /\ ~d.raised)
                      => /\ 0 <= d.discount_applied
                         /\ d.discount_applied <= S
                         /\ d.discounted_amount >= 0
               /\ ~last.result.raised
                      => /\ last.result.discount_applied = d.discount_applied
                         /\ last.result.subtotal = S

\* C15 witness: a fixed discount larger than the subtotal was cut to the subtotal
C15_Witness ==
    /\ last.op = "calculate_order_total"
    /\ ~last.result.raised
    /\ last.discount.kind = "amount"
    /\ last.result.subtotal > 0
    /\ last.discount.value > last.result.subtotal
    /\ last.result.discount_applied = last.result.subtotal
    /\ last.result.discounted_subtotal = 0

\* scenario B: 2 units at $10.00, the 10% code, the 7% region, standard shipping
ScenarioB ==
    /\ last.op = "calculate_order_total"
    /\ last.order_items = <<PriceLine(2, 1000)>>
    /\ last.discount = [kind |-> "code", code |-> "WELCOME10", value |-> 0]
    /\ last.tax = [tax_region |-> "DEFAULT", tax_exempt |-> FALSE]
    /\ last.shipping.shipping_method = "standard"

\* C16 as stated (PriceSpec): scenario B returns subtotal 20.00, discount
\* 2.00, discounted subtotal 18.00, tax 1.26, shipping 5.99, total 25.25.
C16_ScenarioB_AsStated ==
    ScenarioB
        => last.result = [raised |-> FALSE, subtotal |-> 2000,
                          discount_applied |-> 200, discounted_subtotal |-> 1800,
                          tax_amount |-> 126, shipping_cost |-> 599,
                          final_total |-> 2525]

\* C16 amended (PriceSpec): scenario B with the default weight of 1.0 kg and
\* no address returns subtotal 20.00, discount 2.00, discounted subtotal
\* 18.00, tax 1.26, shipping 8.49 (5.99 + 1.0 kg x 2.50) and total 27.75;
\* whatever the weight and the address, shipping is at least 6.24.
C16_ScenarioB ==
    ScenarioB
        => /\ (last.shipping.total_weight = 10 /\ last.shipping.shipping_address = "none")
                  => last.result = [raised |-> FALSE, subtotal |-> 2000,
                                    discount_applied |-> 200,
                                    discounted_subtotal |-> 1800,
                                    tax_amount |-> 126, shipping_cost |-> 849,
                                    final_total |-> 2775]
           /\ last.result.subtotal = 2000
           /\ last.result.discount_applied = 200
           /\ last.result.discounted_subtotal = 1800
           /\ last.result.tax_amount = 126
           /\ last.result.shipping_cost >= 624
           /\ last.result.final_total = 1926 + last.result.shipping_cost

\* C16 witness: scenario B at the default weight gave 27.75
C16_Witness ==
    /\ ScenarioB
    /\ last.shipping.total_weight = 10
    /\ last.shipping.shipping_address = "none"
    /\ last.result.shipping_cost = 849
    /\ last.result.final_total = 2775

\* the operations that change stock through StockManager only
ThroughStockManager ==
    {"reserve_stock", "release_stock", "update_stock_quantity",
     "create_order_from_cart", "transition_order_status"}

\* C17 (Spec): a request that changed a stock_quantity changed it through
\* StockManager's reserve_stock, release_stock or update_stock_quantity; no
\* other operation writes stock_quantity.
C17_OnlyStockManagerWritesStock ==
    stock # last.pre_stock => last.op \in ThroughStockManager

\* DELETE as coded: refused outside pending and cancelled; a pending order's
\* lines go back to stock before the order is removed; a cancelled order is
\* removed with the stock left alone
DeleteRefusedOrRestores ==
    /\ PreOrder.order_status \notin {"pending", "cancelled"}
           => /\ last.outcome = "refused"
              /\ orders = last.pre_orders
              /\ stock = last.pre_stock
    /\ PreOrder.order_status = "pending"
           => /\ last.outcome = "deleted"
              /\ orders[last.order_id] = NoOrder
              /\ \A p \in Products :
                     stock[p] = last.pre_stock[p]
                                    + ReleasedQuantity(PreItems, 1, {}, p)
    /\ PreOrder.order_status = "cancelled"
           => /\ last.outcome = "deleted"
              /\ orders[last.order_id] = NoOrder

\* C18 (Spec): an order is never hard-deleted while it holds inventory
\* without that inventory being restored first: DELETE is refused outside
\* pending and cancelled, deleting a pending order adds every line's quantity
\* back, and once the order is gone no unit taken from stock for it is still
\* missing (orders are the only holders of stock here, so the stock is back
\* to at least what it was before the order was created).
C18_NeverDeletedHoldingInventory ==
    (last.op = "delete_order" /\ PreOrder.exists)
        => /\ DeleteRefusedOrRestores
           /\ last.outcome = "deleted"
                  => \A p \in Products : stock[p] >= stock0[p]

\* C19 (StockSpec): update_stock_quantity(p, n) with n >= 0 on an existing
\* product, when its commit goes through, sets stock_quantity to n whatever
\* it was and reports quantity_change = n - previous; with n < 0 or an
\* unknown product it reports success = false; a call that reports failure
\* changes no stock.
C19_UpdateIsAbsoluteSet ==
    last.op = "update_stock_quantity"
        => /\ (last.product_id \in Products /\ last.quantity >= 0 /\ last.commit_ok)
                  => /\ last.success
                     /\ stock = [last.pre_stock EXCEPT ![last.product_id] = last.quantity]
                     /\ last.quantity_change
                            = last.quantity - last.pre_stock[last.product_id]
           /\ (last.quantity < 0 \/ last.product_id \notin Products)
                  => ~last.success
           /\ ~last.success => stock = last.pre_stock

\* C19 as stated, without the condition on the commit: every call with
\* n >= 0 on an existing product sets the stock to n
C19_UpdateIsAbsoluteSet_AsStated ==
    (/\ last.op = "update_stock_quantity"
     /\ last.product_id \in Products
     /\ last.quantity >= 0)
        => /\ last.success
           /\ stock[last.product_id] = last.quantity

\* C19 witness: a product with stock was set to another, smaller quantity
C19_Witness ==
    /\ last.op = "update_stock_quantity"
    /\ last.success
    /\ last.pre_stock[last.product_id] > last.quantity
    /\ last.quantity > 0
    /\ stock[last.product_id] = last.quantity
    /\ last.quantity_change < 0

\* C20 (Spec): when the reservation of line k fails in create_order_from_cart,
\* the routine fails after its compensating releases, the order exists in
\* status pending with the order items of lines 1..k, and no stock is held
\* for it.
C20_DanglingOrderHoldsNoStock ==
    (/\ last.op = "create_order_from_cart"
     /\ last.outcome = "reservation_failed")
        => /\ ~last.success
           /\ orders[OrderId].exists
           /\ orders[OrderId].order_status = "pending"
           /\ orders[OrderId].order_items
                  = SubSeq(last.pre_cart, 1, last.reserved + 1)
           /\ cart_items = last.pre_cart
           /\ stock = last.pre_stock

\* the last request came from a customer who had reached an order limit
AtOrderLimit ==
    /\ last.customer_id # NoCustomer
    /\ \/ last.history.daily_orders >= MAX_DAILY_ORDERS
       \/ last.history.monthly_total + preliminary_total(last.pre_cart, 1)
              > MAX_MONTHLY_ORDER_VALUE

\* C21 (ConvertSpec): create_order_from_cart for a customer who has reached
\* the daily order limit, or whose monthly order value the new order would
\* push above the cap, aborts before any write: no order, no order item, no
\* stock change, cart unchanged.
C21_OrderLimitAborts ==
    (last.op = "create_order_from_cart" /\ AtOrderLimit)
        => /\ ~last.success
           /\ orders = last.pre_orders
           /\ stock = last.pre_stock
           /\ cart_items = last.pre_cart

\* the quantity the lines k.. of items ask of product p
RECURSIVE LineQuantity(_, _, _)
LineQuantity(items, k, p) ==
    IF k > Len(items) THEN 0
    ELSE (IF items[k].product_id = p THEN items[k].quantity ELSE 0)
             + LineQuantity(items, k + 1, p)

\* C22 (ConvertSpec): a successful create_order_from_cart creates exactly
\* one order, in status pending, with exactly one order item per cart line
\* carrying that line's product, quantity and unit_price, and lowers each
\* product's stock by exactly the quantity of its lines.
C22_SuccessfulConversion ==
    (last.op = "create_order_from_cart" /\ last.success)
        => /\ ~last.pre_orders[OrderId].exists
           /\ orders = [last.pre_orders EXCEPT ![OrderId] = orders[OrderId]]
           /\ orders[OrderId].exists
           /\ orders[OrderId].order_status = "pending"
           /\ Len(orders[OrderId].order_items) = Len(last.pre_cart)
           /\ \A k \in 1..Len(last.pre_cart) :
                  /\ orders[OrderId].order_items[k].product_id
                         = last.pre_cart[k].product_id
                  /\ orders[OrderId].order_items[k].quantity
                         = last.pre_cart[k].quantity
                  /\ orders[OrderId].order_items[k].unit_price
                         = last.pre_cart[k].unit_price
           /\ \A p \in Products :
                  stock[p] = last.pre_stock[p] - LineQuantity(last.pre_cart, 1, p)

\* C22 witness: a cart of two lines became an order of two items
C22_Witness ==
    /\ last.op = "create_order_from_cart"
    /\ last.success
    /\ Len(last.pre_cart) = 2
    /\ Len(orders[OrderId].order_items) = 2
    /\ orders[OrderId].order_items[2].unit_price = product_price["B"]
    /\ \A p \in Products : stock[p] = last.pre_stock[p] - 1

\* the order of this run came from a successful conversion: only a
\* successful create_order_from_cart empties the cart
ConversionSucceeded == orders[OrderId].exists /\ cart_items = <<>>

\* C23 (Spec): over an order's life, created by create_order_from_cart and
\* then moved from pending to confirmed, each line's quantity is taken from
\* stock exactly once: after the successful confirmation the stock is the
\* stock before the conversion minus the quantity of the order's lines.
C23_DeductedExactlyOnce ==
    (/\ last.op = "transition_order_status"
     /\ last.success
     /\ PreOrder.order_status = "pending"
     /\ last.new_status = "confirmed"
     /\ ConversionSucceeded)
        => \A p \in Products :
               stock[p] = stock0[p]
                              - LineQuantity(orders[OrderId].order_items, 1, p)

\* C24 (Spec): whenever an order created by create_order_from_cart reaches
\* cancelled through transition_order_status, every product's stock is back
\* at its value before the conversion: all stock held for the order has been
\* released.
C24_CancelReleasesEverything ==
    (/\ last.op = "transition_order_status"
     /\ last.success
     /\ last.new_status = "cancelled"
     /\ ConversionSucceeded)
        => stock = stock0

\* the operations that write an order's status
StatusWriters == {"transition_order_status", "put_order", "process_order_payment"}

\* C25 (StatusSpec): across transition_order_status, PUT /orders/<id> and
\* payment processing, an order's status only changes along an edge of the
\* transition table (so a cancelled or refunded order never changes status
\* again), and an order becomes confirmed only through the workflow's
\* pending-to-confirmed step.
C25_StatusFollowsTable ==
    (/\ last.op \in StatusWriters
     /\ PreOrder.exists
     /\ orders[last.order_id].order_status # PreOrder.order_status)
        => /\ orders[last.order_id].order_status
                  \in VALID_TRANSITIONS(PreOrder.order_status)
           /\ orders[last.order_id].order_status = "confirmed"
                  => /\ last.op = "transition_order_status"
                     /\ PreOrder.order_status = "pending"

\* C26 (Spec): if the commit of the status change fails while a pending
\* order is being confirmed, after every line was reserved, the call reports
\* failure, the order keeps its old status, and every product's stock is
\* what it was before the call: the reservations of the pre-transition step
\* are undone.
C26_StatusCommitFailureUndoesReservations ==
    (/\ last.op = "transition_order_status"
     /\ PreOrder.order_status = "pending"
     /\ last.new_status = "confirmed"
     /\ last.outcome = "commit_failed")
        => /\ ~last.success
           /\ orders[last.order_id].order_status = "pending"
           /\ stock = last.pre_stock

\* the statuses with no further transition
TerminalStatuses == {s \in OrderStatus : get_valid_transitions(s) = {}}

\* the statuses reachable from the set S in at most n valid transitions
RECURSIVE ReachableWithin(_, _)
ReachableWithin(S, n) ==
    IF n = 0 THEN S
    ELSE ReachableWithin(S \cup UNION {get_valid_transitions(s) : s \in S}, n - 1)

C28_ConfirmReservesOnce ==
    /\ Cardinality({r \in Requests : rres[r] = "success"}) <= 1
    /\ \A p \in Products :
           stock0[p] - stock[p]
               <= LineQuantity(orders[OrderId].order_items, 1, p)

\* C29 (ConvertDeleteSpec): running create_order_from_cart, whether it
\* succeeds or fails partway through the reservation loop, and then deleting
\* the pending order it created leaves every product's stock at its value
\* before the conversion: the deletion restores what the order still holds
\* and never more.
C29_DeleteRestoresWhatIsHeld ==
    (/\ last.op = "delete_order"
     /\ last.outcome = "deleted"
     /\ PreOrder.order_status = "pending")
        => stock = stock0

\* C30 (CartSpec): with nothing running beside it, a create_order_from_cart
\* run whose check_multiple_products_stock reported all_available for the
\* cart's lines sees every reserve_stock of its reservation loop succeed,
\* also when two lines of the cart are for the same product.
C30_BulkCheckImpliesReservations ==
    (/\ last.op = "create_order_from_cart"
     /\ last.pre_cart # <<>>
     /\ check_multiple_products_stock(last.pre_stock, last.pre_cart).all_available)
        => /\ last.outcome # "reservation_failed"
           /\ last.reserved = Len(last.pre_cart)

====
